---- MODULE Spec2Model ----
(***************************************************************************)
(* Model of scripts/rpi_gpio_controller.py: the GPIOController session     *)
(* (configured_pins), the hardware backend it drives (the bookkeeping of   *)
(* MockGPIO, whose calls may also raise as RPi.GPIO's do), and the         *)
(* persisted configuration file.                                           *)
(*                                                                         *)
(* Every menu operation is one action: the program is single-threaded and  *)
(* each handler runs to completion before the next prompt.  Python dicts   *)
(* are functions whose DOMAIN is the set of keys; a dict entry is a record *)
(* whose DOMAIN is the set of keys the entry really has, so that           *)
(* cfg.get('state', LOW) is modelled by what it does.                      *)
(***************************************************************************)
EXTENDS Integers, Sequences, FiniteSets, TLC

\* ---------------------------------------------------------------- bounds
\* How many calls (hardware calls or saves) the environment makes fail in a run.
MaxFaults == 1

\* ------------------------------------------------------------- constants
LOW == 0
HIGH == 1

\* -------------------------------------------------------- generic helpers
\* A Python dict d with d[k] = v executed on it.
Put(d, k, v) == [x \in (DOMAIN d) \cup {k} |-> IF x = k THEN v ELSE d[x]]

\* d.get(k, default)
Get(d, k, default) == IF k \in DOMAIN d THEN d[k] ELSE default

\* The empty dict.
EmptyDict == << >>

\* ------------------------------------------------- text <-> integer (str, int)
DigitChars == <<"0", "1", "2", "3", "4", "5", "6", "7", "8", "9">>

DigitSet == {DigitChars[i] : i \in 1..10}

DigitVal(c) == (CHOOSE i \in 1..10 : DigitChars[i] = c) - 1

\* str(n) for a natural number n: its decimal digits, most significant first.
RECURSIVE str(_)
str(n) == IF n < 10 THEN <<DigitChars[n + 1]>>
          ELSE Append(str(n \div 10), DigitChars[(n % 10) + 1])

\* int(s) succeeds on a non-empty string of digits (ValueError otherwise).
is_int(s) == Len(s) > 0 /\ \A i \in 1..Len(s) : s[i] \in DigitSet

RECURSIVE int(_)
int(s) == IF Len(s) = 0 THEN 0
          ELSE 10 * int(SubSeq(s, 1, Len(s) - 1)) + DigitVal(s[Len(s)])

\* ------------------------------------------------------ Pin Topology Table
\* PIN_MAP: physical pin -> BCM number, << >> standing for None.
PIN_MAP ==
  <<  << >>, << >>, <<2>>, << >>, <<3>>, << >>, <<4>>, <<14>>, << >>, <<15>>,
      <<17>>, <<18>>, <<27>>, << >>, <<22>>, <<23>>, << >>, <<24>>, <<10>>, << >>,
      <<9>>, <<25>>, <<11>>, <<8>>, << >>, <<7>>, <<0>>, <<1>>, <<5>>, << >>,
      <<6>>, <<12>>, <<13>>, << >>, <<19>>, <<16>>, <<26>>, <<20>>, << >>, <<21>> >>

\* valid_pins = [bcm for bcm, _, _ in PIN_MAP.values() if bcm is not None]
valid_pins == {PIN_MAP[i][1] : i \in {j \in DOMAIN PIN_MAP : PIN_MAP[j] # << >>}}

\* ------------------------------------------------ hardware backend (MockGPIO)
\* The hardware calls as the session observes them: ok = FALSE when the call raised.
SetupCall(pin, direction, pull_up_down, ok) ==
  [fn |-> "setup", pin |-> pin, direction |-> direction, pull |-> pull_up_down, ok |-> ok]

OutputCall(pin, state, ok) == [fn |-> "output", pin |-> pin, state |-> state, ok |-> ok]

InputCall(pin, ok) == [fn |-> "input", pin |-> pin, ok |-> ok]

CleanupCall(ok) == [fn |-> "cleanup", ok |-> ok]

\* MockGPIO.setup
gpio_setup(pins, pin, direction, pull_up_down) ==
  Put(pins, pin, [direction |-> direction, state |-> LOW, pull |-> pull_up_down])

\* MockGPIO.output
gpio_output(pins, pin, state) ==
  IF pin \in DOMAIN pins THEN [pins EXCEPT ![pin].state = state] ELSE pins

\* MockGPIO.input
gpio_input(pins, pin) == Get(Get(pins, pin, EmptyDict), "state", LOW)

\* MockGPIO.cleanup
gpio_cleanup(pins) == EmptyDict

\* ------------------------------------------------ persisted configuration
\* The file at self.config_file: absent, or present and either a JSON object
\* (data: key text -> entry) or not well-formed.
NoFile == [exists |-> FALSE, wellformed |-> FALSE, data |-> EmptyDict]

JsonFile(data) == [exists |-> TRUE, wellformed |-> TRUE, data |-> data]

\* What open(..., 'w') leaves behind when the write then fails: a truncated file.
TruncatedFile == [exists |-> TRUE, wellformed |-> FALSE, data |-> EmptyDict]

\* Mutant of config_entry: the in-memory entry is dumped as it is.
config_entry_whole(cfg) == cfg

\* One persisted entry, built from an in-memory entry.
config_entry(cfg) ==
  [direction |-> cfg.direction,
   pull |-> Get(cfg, "pull", "none"),
   name |-> Get(cfg, "name", "")]

\* config_data of save_config: keyed by str(pin).
config_data(cp) ==
  [k \in {str(p) : p \in DOMAIN cp} |-> config_entry(cp[int(k)])]

\* save_config: the file afterwards and the value returned.  A save can fail
\* before the file is opened (makedirs or open raised) or after open() has
\* truncated it.
save_config(cp, file, fault) ==
  CASE fault = "save before open" -> [file |-> file, ret |-> FALSE]
    [] fault = "save after open" -> [file |-> TruncatedFile, ret |-> FALSE]
    [] OTHER -> [file |-> JsonFile(config_data(cp)), ret |-> TRUE]

\* ------------------------------------------------------------------ state
VARIABLES
  configured_pins,  \* self.configured_pins: pin -> entry
  gpio_pins,        \* the backend's pins (MockGPIO._pins): pin -> line record
  config_file,      \* the content of the file at self.config_file
  old_file,         \* the content of the legacy file at old_path
  pc,               \* "running" (in the menu loop) or "exited"
  faults_left       \* how many more calls the environment will make fail

vars == <<configured_pins, gpio_pins, config_file, old_file, pc, faults_left>>

\* The result of running a handler: the three stores afterwards and what the
\* handler did: out, the outcome it printed; calls, the hardware calls it made,
\* in order; saves, the value returned by each save_config call it made.
Res(cp, pins, file, o, cs, sv) ==
  [cp |-> cp, pins |-> pins, file |-> file, out |-> o, calls |-> cs, saves |-> sv]

\* A handler that ends by calling save_config on the map cp.
Saved(cp, pins, file, o, cs, fault) ==
  LET s == save_config(cp, file, fault)
  IN Res(cp, pins, s.file, o, cs, <<s.ret>>)

\* How many calls of a result failed.
NumFaults(r) ==
  Cardinality({i \in DOMAIN r.calls : ~r.calls[i].ok})
  + Cardinality({i \in DOMAIN r.saves : ~r.saves[i]})

\* Apply a handler's result to the state; the faults it met come out of the budget.
Apply(r) ==
  /\ NumFaults(r) <= faults_left
  /\ faults_left' = faults_left - NumFaults(r)
  /\ configured_pins' = r.cp
  /\ gpio_pins' = r.pins
  /\ config_file' = r.file
  /\ old_file' = old_file

\* The same for a handler that ends the process: the file stays, the process's
\* memory (the map and the backend's bookkeeping) is gone.
ApplyExit(r) ==
  /\ NumFaults(r) <= faults_left
  /\ faults_left' = faults_left - NumFaults(r)
  /\ configured_pins' = EmptyDict
  /\ gpio_pins' = EmptyDict
  /\ config_file' = r.file
  /\ old_file' = old_file

\* ------------------------------------------------------------- the inputs
TestPins == {3, 17}

\* What the operator types at a "pin number" prompt: the test pins, a number
\* that is no BCM pin, and a line that is no number.
PinTexts == {str(p) : p \in TestPins} \cup {<<"9", "9">>, <<"x">>}

Names == {"", "relay"}

\* The four options of the setup menu and one that is not on it.
SetupChoices == {"1", "2", "3", "4", "9"}

\* The operator uses pin 3 as an output only.
OutputOnlyPins == {3}

SetupChoicesOf(text) ==
  IF is_int(text) /\ int(text) \in OutputOnlyPins THEN {"1", "9"} ELSE SetupChoices

ControlChoices == {"1", "2", "3", "9"}

Levels == {LOW, HIGH}

SaveFaults == {"save before open", "save after open"}

NoFault == {"none"}

\* The faults the environment can still inject.
Faults(S) == IF faults_left > 0 THEN NoFault \cup S ELSE NoFault

\* What is typed at a prompt: one of S when the handler gets as far as asking
\* (asked), nothing otherwise.
Typed(asked, S, nothing) == IF asked THEN S ELSE {nothing}

\* ---------------------------------------------------------------- setup_pin
\* Mutant of is_valid_pin: any number of one or two digits is accepted.
is_valid_pin_below_100(bcm_pin) == bcm_pin \in 0..99

\* Mutant of is_valid_pin: the pin number is not checked.
is_valid_pin_any(bcm_pin) == TRUE

is_valid_pin(bcm_pin) == bcm_pin \in valid_pins

\* Mutant of setup_output_entry: the entry starts HIGH.
setup_output_entry_high(custom_name) ==
  [direction |-> "output", state |-> HIGH, name |-> custom_name]

\* The entry setup_pin records for an output (option 1).
setup_output_entry(custom_name) ==
  [direction |-> "output", state |-> LOW, name |-> custom_name]

\* The entry setup_pin records for an input (options 2, 3, 4).
setup_input_entry(pull, custom_name) ==
  [direction |-> "input", pull |-> pull, name |-> custom_name]

\* Option 1: GPIO.setup, the map entry, GPIO.output(LOW), then the save.
setup_pin_output(cp, pins, file, bcm_pin, custom_name, fault) ==
  IF fault = "setup"
  THEN Res(cp, pins, file, "Error", <<SetupCall(bcm_pin, "OUT", "None", FALSE)>>, << >>)
  ELSE
    LET pins1 == gpio_setup(pins, bcm_pin, "OUT", "None")
        cp1 == Put(cp, bcm_pin, setup_output_entry(custom_name))
    IN IF fault = "output"
       THEN Res(cp1, pins1, file, "Error",
                <<SetupCall(bcm_pin, "OUT", "None", TRUE),
                  OutputCall(bcm_pin, LOW, FALSE)>>, << >>)
       ELSE Saved(cp1, gpio_output(pins1, bcm_pin, LOW), file,
                  "configured as OUTPUT (initialized to LOW)",
                  <<SetupCall(bcm_pin, "OUT", "None", TRUE),
                    OutputCall(bcm_pin, LOW, TRUE)>>, fault)

\* Options 2, 3, 4: GPIO.setup with the pull, the map entry, then the save.
setup_pin_input(cp, pins, file, bcm_pin, custom_name, choice, fault) ==
  LET pull == CASE choice = "2" -> "none" [] choice = "3" -> "up" [] OTHER -> "down"
      pud == CASE choice = "2" -> "None" [] choice = "3" -> "PUD_UP" [] OTHER -> "PUD_DOWN"
  IN IF fault = "setup"
     THEN Res(cp, pins, file, "Error", <<SetupCall(bcm_pin, "IN", pud, FALSE)>>, << >>)
     ELSE Saved(Put(cp, bcm_pin, setup_input_entry(pull, custom_name)),
                gpio_setup(pins, bcm_pin, "IN", pud), file,
                "configured as INPUT",
                <<SetupCall(bcm_pin, "IN", pud, TRUE)>>, fault)

setup_pin_body(cp, pins, file, text, custom_name, choice, fault) ==
  IF ~is_int(text) THEN Res(cp, pins, file, "Invalid input!", << >>, << >>)
  ELSE IF ~is_valid_pin(int(text))
  THEN Res(cp, pins, file, "Invalid GPIO pin number!", << >>, << >>)
  ELSE IF choice = "1"
  THEN setup_pin_output(cp, pins, file, int(text), custom_name, fault)
  ELSE IF choice \in {"2", "3", "4"}
  THEN setup_pin_input(cp, pins, file, int(text), custom_name, choice, fault)
  ELSE Res(cp, pins, file, "Invalid option!", << >>, << >>)

setup_pin(text, custom_name, choice, fault) ==
  /\ pc = "running"
  /\ Apply(setup_pin_body(configured_pins, gpio_pins, config_file, text,
                          custom_name, choice, fault))
  /\ UNCHANGED pc

\* -------------------------------------------------------------- control_pin
\* Mutant of toggle_state: a toggle always writes HIGH.
toggle_state_high(cfg) == HIGH

\* The level option 3 (toggle) writes.
toggle_state(cfg) == IF Get(cfg, "state", LOW) = HIGH THEN LOW ELSE HIGH

\* Mutant of new_state: every option of the output menu toggles.
new_state_toggles(cfg, choice) == toggle_state(cfg)

\* The level an output option writes: 1 HIGH, 2 LOW, 3 toggle.
new_state(cfg, choice) ==
  CASE choice = "1" -> HIGH [] choice = "2" -> LOW [] OTHER -> toggle_state(cfg)

\* Mutant of control_pin_output: the level is cached before GPIO.output is
\* called, so a failed write leaves it in the entry.
control_pin_output_cache_first(cp, pins, file, bcm_pin, choice, fault) ==
  IF choice \notin {"1", "2", "3"}
  THEN Res(cp, pins, file, "Invalid option!", << >>, << >>)
  ELSE
    LET st == new_state(cp[bcm_pin], choice)
        new_cp == Put(cp, bcm_pin, Put(cp[bcm_pin], "state", st))
    IN IF fault = "output"
       THEN Res(new_cp, pins, file, "Error", <<OutputCall(bcm_pin, st, FALSE)>>, << >>)
       ELSE Saved(new_cp, gpio_output(pins, bcm_pin, st), file,
                  IF choice = "3" THEN "toggled" ELSE "set",
                  <<OutputCall(bcm_pin, st, TRUE)>>, fault)

\* Mutant of control_pin_output: the entry is updated only once the save has
\* succeeded.
control_pin_output_commit_after_save(cp, pins, file, bcm_pin, choice, fault) ==
  IF choice \notin {"1", "2", "3"}
  THEN Res(cp, pins, file, "Invalid option!", << >>, << >>)
  ELSE
    LET st == new_state(cp[bcm_pin], choice)
        new_cp == Put(cp, bcm_pin, Put(cp[bcm_pin], "state", st))
    IN IF fault = "output"
       THEN Res(cp, pins, file, "Error", <<OutputCall(bcm_pin, st, FALSE)>>, << >>)
       ELSE Saved(IF fault \in SaveFaults THEN cp ELSE new_cp,
                  gpio_output(pins, bcm_pin, st), file,
                  IF choice = "3" THEN "toggled" ELSE "set",
                  <<OutputCall(bcm_pin, st, TRUE)>>, fault)

\* The output menu: GPIO.output, the cached state, then the save.
control_pin_output(cp, pins, file, bcm_pin, choice, fault) ==
  IF choice \notin {"1", "2", "3"}
  THEN Res(cp, pins, file, "Invalid option!", << >>, << >>)
  ELSE
    LET st == new_state(cp[bcm_pin], choice)
    IN IF fault = "output"
       THEN Res(cp, pins, file, "Error", <<OutputCall(bcm_pin, st, FALSE)>>, << >>)
       ELSE Saved(Put(cp, bcm_pin, Put(cp[bcm_pin], "state", st)),
                  gpio_output(pins, bcm_pin, st), file,
                  IF choice = "3" THEN "toggled" ELSE "set",
                  <<OutputCall(bcm_pin, st, TRUE)>>, fault)

\* An input pin: GPIO.input, and the value read is cached in the entry.
control_pin_input(cp, pins, file, bcm_pin, fault) ==
  IF fault = "input"
  THEN Res(cp, pins, file, "Error", <<InputCall(bcm_pin, FALSE)>>, << >>)
  ELSE Res(Put(cp, bcm_pin, Put(cp[bcm_pin], "state", gpio_input(pins, bcm_pin))),
           pins, file, "Current state", <<InputCall(bcm_pin, TRUE)>>, << >>)

\* Mutant of control_pin_body: the output menu is shown whatever the direction.
control_pin_body_nodispatch(cp, pins, file, text, choice, fault) ==
  IF ~is_int(text) THEN Res(cp, pins, file, "Invalid input!", << >>, << >>)
  ELSE IF int(text) \notin DOMAIN cp
  THEN Res(cp, pins, file, "Pin not configured! Please setup first.", << >>, << >>)
  ELSE control_pin_output(cp, pins, file, int(text), choice, fault)

control_pin_body(cp, pins, file, text, choice, fault) ==
  IF ~is_int(text) THEN Res(cp, pins, file, "Invalid input!", << >>, << >>)
  ELSE IF int(text) \notin DOMAIN cp
  THEN Res(cp, pins, file, "Pin not configured! Please setup first.", << >>, << >>)
  ELSE IF cp[int(text)].direction = "output"
  THEN control_pin_output(cp, pins, file, int(text), choice, fault)
  ELSE control_pin_input(cp, pins, file, int(text), fault)

control_pin(text, choice, fault) ==
  /\ pc = "running"
  /\ Apply(control_pin_body(configured_pins, gpio_pins, config_file, text, choice, fault))
  /\ UNCHANGED pc

\* ------------------------------------------- read_all_inputs, set_all_outputs
input_pins(cp) == {pin \in DOMAIN cp : cp[pin].direction = "input"}

output_pins(cp) == {pin \in DOMAIN cp : cp[pin].direction = "output"}

Min(S) == CHOOSE x \in S : \A y \in S : x <= y

\* sorted(S) for a set of integers
RECURSIVE sorted(_)
sorted(S) == IF S = {} THEN << >> ELSE <<Min(S)>> \o sorted(S \ {Min(S)})

\* The loop of read_all_inputs over the pins still to visit; F: the pins whose
\* GPIO.input raises.
RECURSIVE read_all_loop(_, _, _, _, _)
read_all_loop(cp, pins, todo, F, cs) ==
  IF todo = << >> THEN [cp |-> cp, calls |-> cs]
  ELSE LET pin == Head(todo)
       IN IF pin \in F
          THEN read_all_loop(cp, pins, Tail(todo), F, Append(cs, InputCall(pin, FALSE)))
          ELSE read_all_loop(Put(cp, pin, Put(cp[pin], "state", gpio_input(pins, pin))),
                             pins, Tail(todo), F, Append(cs, InputCall(pin, TRUE)))

read_all_inputs_body(cp, pins, file, F) ==
  IF input_pins(cp) = {}
  THEN Res(cp, pins, file, "No input pins configured!", << >>, << >>)
  ELSE LET l == read_all_loop(cp, pins, sorted(input_pins(cp)), F, << >>)
       IN Res(l.cp, pins, file, "Input Pin States:", l.calls, << >>)

read_all_inputs(F) ==
  /\ pc = "running"
  /\ Apply(read_all_inputs_body(configured_pins, gpio_pins, config_file, F))
  /\ UNCHANGED pc

\* Mutant of set_all_loop: the loop stops at the first GPIO.output that raises.
RECURSIVE set_all_loop_abort(_, _, _, _, _, _)
set_all_loop_abort(cp, pins, todo, state, F, cs) ==
  IF todo = << >> THEN [cp |-> cp, pins |-> pins, calls |-> cs]
  ELSE LET pin == Head(todo)
       IN IF pin \in F
          THEN [cp |-> cp, pins |-> pins,
                calls |-> Append(cs, OutputCall(pin, state, FALSE))]
          ELSE set_all_loop_abort(Put(cp, pin, Put(cp[pin], "state", state)),
                                  gpio_output(pins, pin, state), Tail(todo), state, F,
                                  Append(cs, OutputCall(pin, state, TRUE)))

\* The loop of set_all_outputs; F: the pins whose GPIO.output raises.
RECURSIVE set_all_loop(_, _, _, _, _, _)
set_all_loop(cp, pins, todo, state, F, cs) ==
  IF todo = << >> THEN [cp |-> cp, pins |-> pins, calls |-> cs]
  ELSE LET pin == Head(todo)
       IN IF pin \in F
          THEN set_all_loop(cp, pins, Tail(todo), state, F,
                            Append(cs, OutputCall(pin, state, FALSE)))
          ELSE set_all_loop(Put(cp, pin, Put(cp[pin], "state", state)),
                            gpio_output(pins, pin, state), Tail(todo), state, F,
                            Append(cs, OutputCall(pin, state, TRUE)))

\* The order in which set_all_outputs visits the output pins.
set_all_order(cp) == sorted(output_pins(cp))

set_all_outputs_body(cp, pins, file, state, F, fault) ==
  IF output_pins(cp) = {}
  THEN Res(cp, pins, file, "No output pins configured!", << >>, << >>)
  ELSE LET l == set_all_loop(cp, pins, set_all_order(cp), state, F, << >>)
       IN Saved(l.cp, l.pins, file, "Done!", l.calls, fault)

set_all_outputs(state, F, fault) ==
  /\ pc = "running"
  /\ Apply(set_all_outputs_body(configured_pins, gpio_pins, config_file, state, F, fault))
  /\ UNCHANGED pc

\* --------------------------------------------------------------- rename_pin
\* Mutant of rename_pin_body: an empty new name removes the pin's entry.
rename_pin_body_delete(cp, pins, file, text, new_name, fault) ==
  IF ~is_int(text) THEN Res(cp, pins, file, "Invalid input!", << >>, << >>)
  ELSE IF int(text) \notin DOMAIN cp
  THEN Res(cp, pins, file, "Pin not configured! Please setup first.", << >>, << >>)
  ELSE Saved(IF new_name # ""
             THEN Put(cp, int(text), Put(cp[int(text)], "name", new_name))
             ELSE [k \in DOMAIN cp \ {int(text)} |-> cp[k]], pins, file,
             IF new_name # "" THEN "renamed" ELSE "name removed", << >>, fault)

\* Mutant of rename_pin_body: no return after "not configured", the save still runs.
rename_pin_body_noreturn(cp, pins, file, text, new_name, fault) ==
  IF ~is_int(text) THEN Res(cp, pins, file, "Invalid input!", << >>, << >>)
  ELSE IF int(text) \notin DOMAIN cp
  THEN Saved(cp, pins, file, "Pin not configured! Please setup first.", << >>, fault)
  ELSE Saved(Put(cp, int(text), Put(cp[int(text)], "name", new_name)), pins, file,
             IF new_name # "" THEN "renamed" ELSE "name removed", << >>, fault)

\* Mutant of rename_pin_body: the save comes before the new name is stored.
rename_pin_body_stale(cp, pins, file, text, new_name, fault) ==
  IF ~is_int(text) THEN Res(cp, pins, file, "Invalid input!", << >>, << >>)
  ELSE IF int(text) \notin DOMAIN cp
  THEN Res(cp, pins, file, "Pin not configured! Please setup first.", << >>, << >>)
  ELSE LET s == save_config(cp, file, fault)
       IN Res(Put(cp, int(text), Put(cp[int(text)], "name", new_name)), pins, s.file,
              IF new_name # "" THEN "renamed" ELSE "name removed", << >>, <<s.ret>>)

rename_pin_body(cp, pins, file, text, new_name, fault) ==
  IF ~is_int(text) THEN Res(cp, pins, file, "Invalid input!", << >>, << >>)
  ELSE IF int(text) \notin DOMAIN cp
  THEN Res(cp, pins, file, "Pin not configured! Please setup first.", << >>, << >>)
  ELSE Saved(Put(cp, int(text), Put(cp[int(text)], "name", new_name)), pins, file,
             IF new_name # "" THEN "renamed" ELSE "name removed", << >>, fault)

rename_pin(text, new_name, fault) ==
  /\ pc = "running"
  /\ Apply(rename_pin_body(configured_pins, gpio_pins, config_file, text, new_name, fault))
  /\ UNCHANGED pc

\* -------------------------------------------------------------- cleanup_all
\* Mutant of cleanup_all_body: the map is not cleared.
cleanup_all_body_keep(cp, pins, file, confirm, fault) ==
  IF confirm \notin {"yes", "y"} THEN Res(cp, pins, file, "Cancelled.", << >>, << >>)
  ELSE IF fault = "cleanup"
  THEN Res(cp, pins, file, "Error", <<CleanupCall(FALSE)>>, << >>)
  ELSE Saved(cp, gpio_cleanup(pins), file, "All GPIO pins cleaned up!",
             <<CleanupCall(TRUE)>>, fault)

cleanup_all_body(cp, pins, file, confirm, fault) ==
  IF confirm \notin {"yes", "y"} THEN Res(cp, pins, file, "Cancelled.", << >>, << >>)
  ELSE IF fault = "cleanup"
  THEN Res(cp, pins, file, "Error", <<CleanupCall(FALSE)>>, << >>)
  ELSE Saved(EmptyDict, gpio_cleanup(pins), file, "All GPIO pins cleaned up!",
             <<CleanupCall(TRUE)>>, fault)

cleanup_all(confirm, fault) ==
  /\ pc = "running"
  /\ Apply(cleanup_all_body(configured_pins, gpio_pins, config_file, confirm, fault))
  /\ UNCHANGED pc

\* ------------------------------------ get_pin_status_symbol, show_pin_details
\* The symbol returned: its colour and shape.
get_pin_status_symbol_body(cp, pins, bcm_pin, fault) ==
  IF bcm_pin \notin DOMAIN cp THEN [ret |-> "gray circle", calls |-> << >>]
  ELSE IF cp[bcm_pin].direction = "output"
  THEN [ret |-> IF Get(cp[bcm_pin], "state", LOW) = HIGH THEN "green dot" ELSE "red dot",
        calls |-> << >>]
  ELSE IF fault = "input"
  THEN [ret |-> "gray circle", calls |-> <<InputCall(bcm_pin, FALSE)>>]
  ELSE [ret |-> IF gpio_input(pins, bcm_pin) = HIGH THEN "blue dot" ELSE "gray dot",
        calls |-> <<InputCall(bcm_pin, TRUE)>>]

\* Mutant of get_pin_status_symbol_res: the level read is cached in the entry.
get_pin_status_symbol_res_caching(cp, pins, file, bcm_pin, fault) ==
  LET r == get_pin_status_symbol_body(cp, pins, bcm_pin, fault)
  IN Res(IF r.calls # << >> /\ r.calls[1].ok
         THEN Put(cp, bcm_pin, Put(cp[bcm_pin], "state", gpio_input(pins, bcm_pin)))
         ELSE cp,
         pins, file, r.ret, r.calls, << >>)

\* get_pin_status_symbol as a handler: what it returns, the calls it made, and
\* the stores, to which it assigns nothing.
get_pin_status_symbol_res(cp, pins, file, bcm_pin, fault) ==
  LET r == get_pin_status_symbol_body(cp, pins, bcm_pin, fault)
  IN Res(cp, pins, file, r.ret, r.calls, << >>)

get_pin_status_symbol(bcm_pin, fault) ==
  /\ pc = "running"
  /\ Apply(get_pin_status_symbol_res(configured_pins, gpio_pins, config_file, bcm_pin, fault))
  /\ UNCHANGED pc

\* show_pin_details reads every input pin, in sorted order; F: the reads that raise.
show_pin_details_body(cp, pins, file, F) ==
  IF DOMAIN cp = {} THEN Res(cp, pins, file, "No pins configured yet!", << >>, << >>)
  ELSE Res(cp, pins, file, "Configured Pins:",
           [i \in 1..Cardinality(input_pins(cp)) |->
              InputCall(sorted(input_pins(cp))[i], sorted(input_pins(cp))[i] \notin F)],
           << >>)

show_pin_details(F) ==
  /\ pc = "running"
  /\ Apply(show_pin_details_body(configured_pins, gpio_pins, config_file, F))
  /\ UNCHANGED pc

\* ---------------------------------------------------------------- run: exits
\* The result of an exit path: as Res, with steps, the calls of save_config
\* and GPIO.cleanup in the order they were made.
ExitRes(cp, pins, file, o, cs, sv, steps) ==
  [cp |-> cp, pins |-> pins, file |-> file, out |-> o, calls |-> cs, saves |-> sv,
   steps |-> steps]

\* Mutant of run_quit_body: GPIO.cleanup is called only if the save succeeded.
run_quit_body_guarded(cp, pins, file, fault, cfault) ==
  LET s == save_config(cp, file, fault)
  IN IF ~s.ret
     THEN ExitRes(cp, pins, s.file, "Saving configuration and exiting...",
                  << >>, <<s.ret>>, <<"save_config">>)
     ELSE ExitRes(cp, gpio_cleanup(pins), s.file, "Saving configuration and exiting...",
                  <<CleanupCall(TRUE)>>, <<s.ret>>, <<"save_config", "GPIO.cleanup">>)

\* Choice "q": save_config, then GPIO.cleanup; a cleanup that raises lands in
\* "except Exception", which calls GPIO.cleanup again.
run_quit_body(cp, pins, file, fault, cfault) ==
  LET s == save_config(cp, file, fault)
  IN CASE cfault = "none" ->
            ExitRes(cp, gpio_cleanup(pins), s.file, "Saving configuration and exiting...",
                    <<CleanupCall(TRUE)>>, <<s.ret>>, <<"save_config", "GPIO.cleanup">>)
       [] cfault = "cleanup" ->
            ExitRes(cp, gpio_cleanup(pins), s.file, "Fatal error",
                    <<CleanupCall(FALSE), CleanupCall(TRUE)>>, <<s.ret>>,
                    <<"save_config", "GPIO.cleanup", "GPIO.cleanup">>)
       [] OTHER ->
            ExitRes(cp, pins, s.file, "Fatal error",
                    <<CleanupCall(FALSE), CleanupCall(FALSE)>>, <<s.ret>>,
                    <<"save_config", "GPIO.cleanup", "GPIO.cleanup">>)

\* KeyboardInterrupt at a prompt: save_config, then GPIO.cleanup.
run_interrupt_body(cp, pins, file, fault, cfault) ==
  LET s == save_config(cp, file, fault)
  IN IF cfault = "none"
     THEN ExitRes(cp, gpio_cleanup(pins), s.file, "Interrupted by user.",
                  <<CleanupCall(TRUE)>>, <<s.ret>>, <<"save_config", "GPIO.cleanup">>)
     ELSE ExitRes(cp, pins, s.file, "Interrupted by user.", <<CleanupCall(FALSE)>>,
                  <<s.ret>>, <<"save_config", "GPIO.cleanup">>)

\* Any other exception reaching the loop (end of input at a prompt):
\* GPIO.cleanup only.
run_fatal_body(cp, pins, file, cfault) ==
  IF cfault = "none"
  THEN ExitRes(cp, gpio_cleanup(pins), file, "Fatal error", <<CleanupCall(TRUE)>>, << >>,
               <<"GPIO.cleanup">>)
  ELSE ExitRes(cp, pins, file, "Fatal error", <<CleanupCall(FALSE)>>, << >>,
               <<"GPIO.cleanup">>)

run_quit(fault, cfault) ==
  /\ pc = "running"
  /\ ApplyExit(run_quit_body(configured_pins, gpio_pins, config_file, fault, cfault))
  /\ pc' = "exited"

run_interrupt(fault, cfault) ==
  /\ pc = "running"
  /\ ApplyExit(run_interrupt_body(configured_pins, gpio_pins, config_file, fault, cfault))
  /\ pc' = "exited"

run_fatal(cfault) ==
  /\ pc = "running"
  /\ ApplyExit(run_fatal_body(configured_pins, gpio_pins, config_file, cfault))
  /\ pc' = "exited"

\* ------------------------------------------------------ __init__, load_config
\* The entry load_config records for a persisted output.
load_output_entry(cfg) ==
  [direction |-> "output", state |-> LOW, name |-> Get(cfg, "name", "")]

\* Mutant of load_input_entry: the pull is not recorded.
load_input_entry_nopull(cfg) ==
  [direction |-> "input", name |-> Get(cfg, "name", "")]

\* The entry load_config records for any other persisted entry.
load_input_entry(cfg) ==
  [direction |-> "input", pull |-> Get(cfg, "pull", "none"), name |-> Get(cfg, "name", "")]

\* The body of the per-entry try block; fault: the hardware call that raises.
load_entry(cp, pins, pin, cfg, fault) ==
  IF "direction" \notin DOMAIN cfg THEN [cp |-> cp, pins |-> pins, calls |-> << >>]
  ELSE IF cfg.direction = "output"
  THEN IF fault = "setup"
       THEN [cp |-> cp, pins |-> pins, calls |-> <<SetupCall(pin, "OUT", "None", FALSE)>>]
       ELSE IF fault = "output"
       THEN [cp |-> cp, pins |-> gpio_setup(pins, pin, "OUT", "None"),
             calls |-> <<SetupCall(pin, "OUT", "None", TRUE), OutputCall(pin, LOW, FALSE)>>]
       ELSE [cp |-> Put(cp, pin, load_output_entry(cfg)),
             pins |-> gpio_output(gpio_setup(pins, pin, "OUT", "None"), pin, LOW),
             calls |-> <<SetupCall(pin, "OUT", "None", TRUE), OutputCall(pin, LOW, TRUE)>>]
  ELSE LET pull == Get(cfg, "pull", "none")
           pud == CASE pull = "up" -> "PUD_UP" [] pull = "down" -> "PUD_DOWN"
                    [] OTHER -> "None"
       IN IF fault \in {"setup", "output"}
          THEN [cp |-> cp, pins |-> pins, calls |-> <<SetupCall(pin, "IN", pud, FALSE)>>]
          ELSE [cp |-> Put(cp, pin, load_input_entry(cfg)),
                pins |-> gpio_setup(pins, pin, "IN", pud),
                calls |-> <<SetupCall(pin, "IN", pud, TRUE)>>]

\* Mutant of load_loop: the first entry whose hardware call fails ends the loop.
RECURSIVE load_loop_stop(_, _, _, _, _, _)
load_loop_stop(cp, pins, data, todo, fa, cs) ==
  IF todo = << >> THEN [cp |-> cp, pins |-> pins, calls |-> cs, aborted |-> FALSE]
  ELSE IF ~is_int(Head(todo))
  THEN [cp |-> cp, pins |-> pins, calls |-> cs, aborted |-> TRUE]
  ELSE LET e == load_entry(cp, pins, int(Head(todo)), data[Head(todo)], fa[Head(todo)])
       IN IF \E i \in DOMAIN e.calls : ~e.calls[i].ok
          THEN [cp |-> e.cp, pins |-> e.pins, calls |-> cs \o e.calls, aborted |-> FALSE]
          ELSE load_loop_stop(e.cp, e.pins, data, Tail(todo), fa, cs \o e.calls)

\* The loop over config_data.items(); todo: the keys in file order; fa: key ->
\* the fault met on it.  int(pin_str) is outside the inner try: a key that is no
\* integer ends the loop.
RECURSIVE load_loop(_, _, _, _, _, _)
load_loop(cp, pins, data, todo, fa, cs) ==
  IF todo = << >> THEN [cp |-> cp, pins |-> pins, calls |-> cs, aborted |-> FALSE]
  ELSE IF ~is_int(Head(todo))
  THEN [cp |-> cp, pins |-> pins, calls |-> cs, aborted |-> TRUE]
  ELSE LET e == load_entry(cp, pins, int(Head(todo)), data[Head(todo)], fa[Head(todo)])
       IN load_loop(e.cp, e.pins, data, Tail(todo), fa, cs \o e.calls)

\* Mutant of load_config: the file is rewritten from what was restored.
load_config_resave(cp, pins, file, todo, fa) ==
  IF ~file.exists THEN Res(cp, pins, file, "", << >>, << >>)
  ELSE IF ~file.wellformed
  THEN Res(cp, pins, file, "Warning: Could not load config file", << >>, << >>)
  ELSE LET l == load_loop(cp, pins, file.data, todo, fa, << >>)
       IN Res(l.cp, l.pins, JsonFile(config_data(l.cp)),
              IF l.aborted THEN "Warning: Could not load config file"
              ELSE IF DOMAIN l.cp # {} THEN "Loaded configuration"
              ELSE IF \E i \in DOMAIN l.calls : ~l.calls[i].ok
              THEN "Warning: Could not restore"
              ELSE "",
              l.calls, << >>)

load_config(cp, pins, file, todo, fa) ==
  IF ~file.exists THEN Res(cp, pins, file, "", << >>, << >>)
  ELSE IF ~file.wellformed
  THEN Res(cp, pins, file, "Warning: Could not load config file", << >>, << >>)
  ELSE LET l == load_loop(cp, pins, file.data, todo, fa, << >>)
       IN Res(l.cp, l.pins, file,
              IF l.aborted THEN "Warning: Could not load config file"
              ELSE IF DOMAIN l.cp # {} THEN "Loaded configuration"
              ELSE IF \E i \in DOMAIN l.calls : ~l.calls[i].ok
              THEN "Warning: Could not restore"
              ELSE "",
              l.calls, << >>)

\* The orders in which a dict with the keys S can be iterated.
Orders(S) == {o \in [1..Cardinality(S) -> S] : \A k \in S : \E i \in DOMAIN o : o[i] = k}

\* The migration of __init__.  The legacy file is moved to the canonical place
\* when it exists and the canonical file does not; shutil.move raising falls
\* back to shutil.copy2, and anything else raising ends the migration with a
\* warning.  mfault: "makedirs" (os.makedirs raises), "move" (the move raises,
\* the copy succeeds), "move and copy" (both raise, nothing is written),
\* "copy truncated" (both raise, the copy leaving a partial file behind).
migrate_needed(old, file) == old.exists /\ ~file.exists

\* Mutant of migrate: the legacy file is moved whether or not the canonical
\* file exists.
migrate_overwrite(old, file, mfault) ==
  IF ~old.exists
  THEN [old |-> old, file |-> file, out |-> "", ok |-> TRUE]
  ELSE [old |-> NoFile, file |-> old, out |-> "Migrated config", ok |-> TRUE]

migrate(old, file, mfault) ==
  IF ~migrate_needed(old, file)
  THEN [old |-> old, file |-> file, out |-> "", ok |-> TRUE]
  ELSE CASE mfault = "makedirs" ->
              [old |-> old, file |-> file, out |-> "Warning: failed to migrate config",
               ok |-> FALSE]
         [] mfault = "move" ->
              [old |-> old, file |-> old, out |-> "Copied config", ok |-> FALSE]
         [] mfault = "move and copy" ->
              [old |-> old, file |-> file, out |-> "Warning: failed to migrate config",
               ok |-> FALSE]
         [] mfault = "copy truncated" ->
              [old |-> old, file |-> TruncatedFile,
               out |-> "Warning: failed to migrate config", ok |-> FALSE]
         [] OTHER ->
              [old |-> NoFile, file |-> old, out |-> "Migrated config", ok |-> TRUE]

MigrateFaults == {"makedirs", "move", "move and copy", "copy truncated"}

\* __init__: an empty map, the migration, then load_config on the canonical
\* file as the migration left it.  old: the legacy file afterwards; migration:
\* what the migration printed; load: the result of load_config.
initialize(old, file, mfault, todo, fa) ==
  LET m == migrate(old, file, mfault)
  IN [old |-> m.old, migration |-> m.out, migrated |-> m.ok,
      load |-> load_config(EmptyDict, EmptyDict, m.file, todo, fa)]

\* How many calls of an __init__ failed.
InitFaults(i) == (IF i.migrated THEN 0 ELSE 1) + NumFaults(i.load)

\* A new process: a fresh backend, then __init__.
Restart(mfault, todo, fa) ==
  /\ pc = "exited"
  /\ LET i == initialize(old_file, config_file, mfault, todo, fa)
     IN /\ InitFaults(i) <= faults_left
        /\ faults_left' = faults_left - InitFaults(i)
        /\ configured_pins' = i.load.cp
        /\ gpio_pins' = i.load.pins
        /\ config_file' = i.load.file
        /\ old_file' = i.old
  /\ pc' = "running"

\* ------------------------------------------------------------ environment
\* The outside world drives the line of a pin set up as an input.
ExternalDrive(pin, level) ==
  /\ pin \in DOMAIN gpio_pins
  /\ gpio_pins[pin].direction = "IN"
  /\ gpio_pins[pin].state # level
  /\ gpio_pins' = [gpio_pins EXCEPT ![pin].state = level]
  /\ UNCHANGED <<configured_pins, config_file, old_file, pc, faults_left>>

\* ------------------------------------------------------------ specification
Init ==
  /\ configured_pins = EmptyDict
  /\ gpio_pins = EmptyDict
  /\ config_file = NoFile
  /\ old_file = NoFile
  /\ pc = "running"
  /\ faults_left = MaxFaults

\* setup_pin asks for the name and the option of a valid pin only.
setup_asks(text) == is_int(text) /\ is_valid_pin(int(text))

\* control_pin asks for an option when the pin is a configured output.
control_asks(text) ==
  /\ is_int(text)
  /\ int(text) \in DOMAIN configured_pins
  /\ configured_pins[int(text)].direction = "output"

\* rename_pin asks for the new name of a configured pin.
rename_asks(text) == is_int(text) /\ int(text) \in DOMAIN configured_pins

Next ==
  \/ \E text \in PinTexts :
       \E custom_name \in Typed(setup_asks(text), Names, ""),
          choice \in Typed(setup_asks(text), SetupChoicesOf(text), ""),
          fault \in Faults({"setup", "output"} \cup SaveFaults) :
         setup_pin(text, custom_name, choice, fault)
  \/ \E text \in PinTexts :
       \E choice \in Typed(control_asks(text), ControlChoices, ""),
          fault \in Faults({"output", "input"} \cup SaveFaults) :
         control_pin(text, choice, fault)
  \/ \E F \in SUBSET input_pins(configured_pins) : read_all_inputs(F)
  \/ \E state \in Levels, F \in SUBSET output_pins(configured_pins),
        fault \in Faults(SaveFaults) :
       set_all_outputs(state, F, fault)
  \/ \E F \in SUBSET input_pins(configured_pins) : show_pin_details(F)
  \/ \E text \in PinTexts :
       \E new_name \in Typed(rename_asks(text), Names, ""), fault \in Faults(SaveFaults) :
         rename_pin(text, new_name, fault)
  \/ \E confirm \in {"yes", "no"}, fault \in Faults({"cleanup"} \cup SaveFaults) :
       cleanup_all(confirm, fault)
  \/ \E bcm_pin \in TestPins, fault \in Faults({"input"}) :
       get_pin_status_symbol(bcm_pin, fault)
  \/ \E fault \in Faults(SaveFaults), cfault \in Faults({"cleanup", "cleanup twice"}) :
       run_quit(fault, cfault)
  \/ \E fault \in Faults(SaveFaults), cfault \in Faults({"cleanup"}) :
       run_interrupt(fault, cfault)
  \/ \E cfault \in Faults({"cleanup"}) : run_fatal(cfault)
  \/ \E mfault \in Typed(migrate_needed(old_file, config_file), Faults(MigrateFaults), "none") :
       \E todo \in Orders(DOMAIN migrate(old_file, config_file, mfault).file.data),
          fa \in [DOMAIN migrate(old_file, config_file, mfault).file.data
                   -> Faults({"setup", "output"})] :
         Restart(mfault, todo, fa)
  \/ \E pin \in TestPins, level \in Levels : ExternalDrive(pin, level)

Spec == Init /\ [][Next]_vars

\* ------------------------------------------- start-up over files found on disk
\* Entries as they can stand in a configuration file that was deployed or
\* edited by hand.
InputUpEntry == [direction |-> "input", pull |-> "up", name |-> "relay"]

InputDownEntry == [direction |-> "input", pull |-> "down", name |-> ""]

\* An output in the documented format: no pull.
OutputEntry == [direction |-> "output", name |-> ""]

\* An output as save_config writes it.
SavedOutputEntry == [direction |-> "output", pull |-> "none", name |-> "relay"]

\* Pins 17 and 3, in the documented format.
TwoPinData == Put(Put(EmptyDict, str(17), InputUpEntry), str(3), OutputEntry)

\* Pin 3 as save_config writes it.
SavedData == Put(EmptyDict, str(3), SavedOutputEntry)

\* Pin 17 and an entry whose key is no integer.
BadKeyData == Put(Put(EmptyDict, str(17), InputUpEntry), <<"x">>, OutputEntry)

\* A legacy configuration: pin 17.
LegacyData == Put(EmptyDict, str(17), InputDownEntry)

\* Pin 17 with a direction that is neither "input" nor "output".
UnknownDirectionEntry == [direction |-> "bidirectional", pull |-> "up", name |-> "relay"]

UnknownDirectionData == Put(EmptyDict, str(17), UnknownDirectionEntry)

\* The canonical file a process can find when it starts.
StartFiles ==
  {NoFile, TruncatedFile, JsonFile(TwoPinData), JsonFile(SavedData), JsonFile(BadKeyData),
   JsonFile(UnknownDirectionData)}

\* The legacy file a process can find when it starts.
LegacyFiles == {NoFile, JsonFile(LegacyData), JsonFile(BadKeyData)}

\* No process runs yet; the files are whatever is on disk.
StartInit ==
  /\ configured_pins = EmptyDict
  /\ gpio_pins = EmptyDict
  /\ config_file \in StartFiles
  /\ old_file \in LegacyFiles
  /\ pc = "exited"
  /\ faults_left = MaxFaults

\* Start-ups, and sessions in which the operator renames, looks at the pins and
\* leaves.
StartNext ==
  \/ \E mfault \in Typed(migrate_needed(old_file, config_file), Faults(MigrateFaults), "none") :
       \E todo \in Orders(DOMAIN migrate(old_file, config_file, mfault).file.data),
          fa \in [DOMAIN migrate(old_file, config_file, mfault).file.data
                   -> Faults({"setup", "output"})] :
         Restart(mfault, todo, fa)
  \/ \E text \in PinTexts :
       \E new_name \in Typed(rename_asks(text), Names, ""), fault \in Faults(SaveFaults) :
         rename_pin(text, new_name, fault)
  \/ \E bcm_pin \in TestPins, fault \in Faults({"input"}) :
       get_pin_status_symbol(bcm_pin, fault)
  \/ \E fault \in Faults(SaveFaults), cfault \in Faults({"cleanup", "cleanup twice"}) :
       run_quit(fault, cfault)
  \/ \E cfault \in Faults({"cleanup"}) : run_fatal(cfault)

StartSpec == StartInit /\ [][StartNext]_vars

\* ===================================================================
\* Properties.  A handler's result r on the current state is what the step
\* makes of the state (Apply); Enabled(r) says the environment can still
\* inject the faults r met, so that the step can be taken.
\* ===================================================================
Enabled(r) == NumFaults(r) <= faults_left

Running == pc = "running"

Max(S) == CHOOSE x \in S : \A y \in S : y <= x

\* The level of the last successful GPIO.output on pin among the calls cs
\* (-1: none).
LastWritten(cs, pin) ==
  LET I == {i \in DOMAIN cs : cs[i].fn = "output" /\ cs[i].pin = pin /\ cs[i].ok}
  IN IF I = {} THEN -1 ELSE cs[Max(I)].state

SetupFaults == NoFault \cup {"setup", "output"} \cup SaveFaults

\* Every way load_config can run on the current file.
LoadResults ==
  {load_config(EmptyDict, EmptyDict, config_file, todo, fa) :
     todo \in Orders(DOMAIN config_file.data),
     fa \in [DOMAIN config_file.data -> NoFault \cup {"setup", "output"}]}

\* Pin is an output whose cached level, line level and last written level are LOW.
OutputIsLow(r, pin) ==
  /\ pin \in DOMAIN r.cp
  /\ r.cp[pin].direction = "output"
  /\ "state" \in DOMAIN r.cp[pin]
  /\ r.cp[pin].state = LOW
  /\ pin \in DOMAIN r.pins
  /\ r.pins[pin].state = LOW
  /\ LastWritten(r.calls, pin) = LOW

\* C1: output safety reset.  Whenever setup_pin option 1 succeeds on a pin,
\* and for every pin that load_config restores as an output at a restart, the
\* pin's cached level is LOW, the backend holds LOW for it and the last level
\* the handler wrote to it is LOW, whatever the pin was before.
C1_OutputSafetyReset ==
  /\ Running =>
       \A text \in PinTexts, custom_name \in Names, fault \in SetupFaults :
         LET r == setup_pin_body(configured_pins, gpio_pins, config_file, text,
                                 custom_name, "1", fault)
         IN (Enabled(r) /\ r.out = "configured as OUTPUT (initialized to LOW)")
              => OutputIsLow(r, int(text))
  /\ ~Running =>
       \A r \in LoadResults :
         Enabled(r) => \A pin \in output_pins(r.cp) : OutputIsLow(r, pin)

\* C1 witness: a session that stopped with a persisted output and is about to
\* restart, where the restore brings that output back LOW.
C1_Witness ==
  /\ ~Running
  /\ \E r \in LoadResults :
       /\ Enabled(r)
       /\ 17 \in output_pins(r.cp)
       /\ OutputIsLow(r, 17)

\* ---------------------------------------------------------------------
\* The results of the mutating handlers on the current state, over every input.
ControlFaults == NoFault \cup {"output", "input"} \cup SaveFaults

RenameFaults == NoFault \cup SaveFaults

CleanupFaults == NoFault \cup {"cleanup"} \cup SaveFaults

\* Fs: the faults the environment may inject.
SetupResults(Fs) ==
  {setup_pin_body(configured_pins, gpio_pins, config_file, text, custom_name, choice, fault) :
     text \in PinTexts, custom_name \in Names, choice \in SetupChoices, fault \in Fs}

ControlResults(Fs) ==
  {control_pin_body(configured_pins, gpio_pins, config_file, text, choice, fault) :
     text \in PinTexts, choice \in ControlChoices, fault \in Fs}

RenameResults(Fs) ==
  {rename_pin_body(configured_pins, gpio_pins, config_file, text, new_name, fault) :
     text \in PinTexts, new_name \in Names, fault \in Fs}

SetAllResults(Fs) ==
  {set_all_outputs_body(configured_pins, gpio_pins, config_file, state, {}, fault) :
     state \in Levels, fault \in Fs}

CleanupResults(Fs) ==
  {cleanup_all_body(configured_pins, gpio_pins, config_file, confirm, fault) :
     confirm \in {"yes", "no"}, fault \in Fs}

\* The results of the mutating handlers when no call fails.  (A result that
\* met a fault is not a success, whatever the fault.)
FaultFreeResults ==
  SetupResults(NoFault) \cup ControlResults(NoFault) \cup RenameResults(NoFault)
    \cup SetAllResults(NoFault) \cup CleanupResults(NoFault)

\* What a mutating handler prints when it has done what was asked.
SuccessOuts ==
  {"configured as OUTPUT (initialized to LOW)", "configured as INPUT", "set", "toggled",
   "renamed", "name removed", "Done!", "All GPIO pins cleaned up!"}

\* The operation completed successfully: it reports success and no hardware
\* call and no save of it failed.
Succeeded(r) == r.out \in SuccessOuts /\ NumFaults(r) = 0

\* The file holds exactly the pins of the map cp, each with the direction, pull
\* and name of its entry.
FileIsProjection(file, cp) ==
  /\ file.exists
  /\ file.wellformed
  /\ DOMAIN file.data = {str(pin) : pin \in DOMAIN cp}
  /\ \A pin \in DOMAIN cp :
       file.data[str(pin)] =
         [direction |-> cp[pin].direction,
          pull |-> IF "pull" \in DOMAIN cp[pin] THEN cp[pin].pull ELSE "none",
          name |-> cp[pin].name]

\* C2: after every mutating operation (setup, set/toggle, rename, set all
\* outputs, cleanup) that completes successfully, the file is the projection of
\* the in-memory map onto direction, pull and name, for exactly the map's pins.
C2_FileFollowsMap ==
  Running =>
    \A r \in FaultFreeResults :
      Succeeded(r) => FileIsProjection(r.file, r.cp)

\* C2 witness: a successful operation on a map of two pins whose file lagged
\* behind the map, and which brings the file up to date.
C2_Witness ==
  /\ Running
  /\ Cardinality(DOMAIN configured_pins) = 2
  /\ ~FileIsProjection(config_file, configured_pins)
  /\ \E r \in RenameResults(NoFault) :
       /\ Succeeded(r)
       /\ r.cp # configured_pins
       /\ FileIsProjection(r.file, r.cp)

\* C3: no entry of the persisted file ever carries a level: every entry has
\* exactly the keys direction, pull and name, whatever was written to the
\* outputs or read from the inputs.
C3_NoLevelPersisted ==
  config_file.wellformed =>
    \A k \in DOMAIN config_file.data :
      DOMAIN config_file.data[k] = {"direction", "pull", "name"}

\* C3 witness: the map caches HIGH for an output and a level for an input, and
\* the file written from it holds both pins.
C3_Witness ==
  /\ config_file.wellformed
  /\ FileIsProjection(config_file, configured_pins)
  /\ \E p \in output_pins(configured_pins), q \in input_pins(configured_pins) :
       /\ Get(configured_pins[p], "state", LOW) = HIGH
       /\ "state" \in DOMAIN configured_pins[q]
       /\ configured_pins[q].state = HIGH

\* ---------------------------------------------------------------------
\* The handler left the map, the backend and the file as they were, made no
\* hardware call and no save.
NoEffect(r) ==
  /\ r.cp = configured_pins
  /\ r.pins = gpio_pins
  /\ r.file = config_file
  /\ r.calls = << >>
  /\ r.saves = << >>

\* The options of the output menu that write a level.
WriteChoices == {"1", "2", "3"}

Direction(text) == configured_pins[int(text)].direction

Configured(text) == is_int(text) /\ int(text) \in DOMAIN configured_pins

\* The handler reported a failure.
Failed(r) == r.out \notin SuccessOuts \cup {"Current state"}

UnknownPins == {28, 40, 99}

\* C5: setup_pin on a pin number outside the BCM numbers of PIN_MAP is
\* rejected as an invalid pin before anything else happens: no hardware call,
\* no save, and the map, the backend and the file are as before.
C5_UnknownPinRejected ==
  Running =>
    \A n \in UnknownPins, custom_name \in Names, choice \in SetupChoices,
       fault \in SetupFaults :
      LET r == setup_pin_body(configured_pins, gpio_pins, config_file, str(n),
                              custom_name, choice, fault)
      IN /\ r.out = "Invalid GPIO pin number!"
         /\ NoEffect(r)
         /\ n \notin DOMAIN r.cp

\* C5 witness: a session with a configured pin and a written file, in which
\* setup_pin of pin 99 as an input is rejected.
C5_Witness ==
  /\ Running
  /\ DOMAIN configured_pins # {}
  /\ config_file.wellformed
  /\ LET r == setup_pin_body(configured_pins, gpio_pins, config_file, str(99), "", "2", "none")
     IN r.out = "Invalid GPIO pin number!" /\ NoEffect(r)

\* C6: control_pin (a write, a toggle or a read) and rename_pin on a pin that
\* is not in the map report "not configured" without any hardware call or
\* save, and leave the map, the backend and the file as they were.
C6_NotConfiguredRejected ==
  Running =>
    \A text \in PinTexts :
      (is_int(text) /\ int(text) \notin DOMAIN configured_pins) =>
        /\ \A choice \in ControlChoices, fault \in ControlFaults :
             LET r == control_pin_body(configured_pins, gpio_pins, config_file,
                                       text, choice, fault)
             IN r.out = "Pin not configured! Please setup first." /\ NoEffect(r)
        /\ \A new_name \in Names, fault \in RenameFaults :
             LET r == rename_pin_body(configured_pins, gpio_pins, config_file,
                                      text, new_name, fault)
             IN r.out = "Pin not configured! Please setup first." /\ NoEffect(r)

\* C6 witness: pin 3 is configured and pin 17 is not; a write and a rename of
\* pin 17 are rejected.
C6_Witness ==
  /\ Running
  /\ 3 \in DOMAIN configured_pins
  /\ 17 \notin DOMAIN configured_pins
  /\ config_file.wellformed
  /\ control_pin_body(configured_pins, gpio_pins, config_file, str(17), "1", "none").out
       = "Pin not configured! Please setup first."
  /\ rename_pin_body(configured_pins, gpio_pins, config_file, str(17), "relay", "none").out
       = "Pin not configured! Please setup first."

\* ---------------------------------------------------------------------
\* A hardware call of the handler failed.
HardwareFailed(r) == \E i \in DOMAIN r.calls : ~r.calls[i].ok

\* The entry of pin in the map cp is what it is in the current map: absent if
\* it is absent there, the same record otherwise.
EntryAsBefore(cp, pin) ==
  IF pin \in DOMAIN configured_pins
  THEN pin \in DOMAIN cp /\ cp[pin] = configured_pins[pin]
  ELSE pin \notin DOMAIN cp

\* C7 as stated: when a hardware call of setup_pin fails (GPIO.setup, or the
\* GPIO.output(LOW) of option 1), the handler reports the error and the pin's
\* entry in the map is exactly what it was before: still absent, or the same
\* direction, pull, name and level.
C7_FaultKeepsEntry ==
  Running =>
    \A text \in PinTexts, custom_name \in Names, choice \in SetupChoices,
       fault \in {"setup", "output"} :
      LET r == setup_pin_body(configured_pins, gpio_pins, config_file, text,
                              custom_name, choice, fault)
      IN (Enabled(r) /\ HardwareFailed(r))
           => (r.out = "Error" /\ EntryAsBefore(r.cp, int(text)))

\* ---------------------------------------------------------------------
\* The pins of the successive calls cs.
CallPins(cs) == [i \in DOMAIN cs |-> cs[i].pin]

\* C8: set_all_outputs on a map with output pins makes one GPIO.output call
\* per output pin, with the requested level, in ascending pin order, whichever
\* calls fail.  A pin whose call fails keeps its entry and its line as they
\* were; every other output pin, before or after it, ends with the requested
\* level cached and on its line; the input pins' entries and lines are
\* untouched; and save_config runs exactly once, after the loop, writing the
\* projection of the final map when it does not fail.
C8_SetAllBestEffort ==
  Running =>
    \A state \in Levels, F \in SUBSET output_pins(configured_pins),
       fault \in NoFault \cup SaveFaults :
      LET r == set_all_outputs_body(configured_pins, gpio_pins, config_file, state, F, fault)
          outs == output_pins(configured_pins)
      IN (outs # {} /\ Enabled(r)) =>
           /\ CallPins(r.calls) = sorted(outs)
           /\ \A i \in DOMAIN r.calls :
                r.calls[i] = OutputCall(r.calls[i].pin, state, r.calls[i].pin \notin F)
           /\ \A i, j \in DOMAIN r.calls : i < j => r.calls[i].pin < r.calls[j].pin
           /\ DOMAIN r.cp = DOMAIN configured_pins
           /\ DOMAIN r.pins = DOMAIN gpio_pins
           /\ \A p \in F : r.cp[p] = configured_pins[p] /\ r.pins[p] = gpio_pins[p]
           /\ \A p \in outs \ F :
                /\ r.cp[p] = Put(configured_pins[p], "state", state)
                /\ r.pins[p].state = state
           /\ \A p \in input_pins(configured_pins) :
                r.cp[p] = configured_pins[p] /\ r.pins[p] = gpio_pins[p]
           /\ Len(r.saves) = 1
           /\ r.saves[1] => FileIsProjection(r.file, r.cp)
           /\ r.out = "Done!"

\* C8 witness: pins 3 and 17 are outputs at LOW, and setting all outputs HIGH
\* with the write on pin 3 failing leaves 3 at LOW and sets 17, visited after
\* it, to HIGH, with one save.
C8_Witness ==
  /\ Running
  /\ output_pins(configured_pins) = {3, 17}
  /\ Get(configured_pins[3], "state", LOW) = LOW
  /\ Get(configured_pins[17], "state", LOW) = LOW
  /\ LET r == set_all_outputs_body(configured_pins, gpio_pins, config_file, HIGH, {3}, "none")
     IN /\ Enabled(r)
        /\ r.calls = <<OutputCall(3, HIGH, FALSE), OutputCall(17, HIGH, TRUE)>>
        /\ r.cp[3] = configured_pins[3]
        /\ r.cp[17].state = HIGH
        /\ r.pins[17].state = HIGH
        /\ r.saves = <<TRUE>>

\* ---------------------------------------------------------------------
\* C9: whenever cleanup_all, confirmed, gets through GPIO.cleanup, on a map of
\* any number of pins: GPIO.cleanup is the one hardware call made, the map and
\* the backend's lines are empty afterwards, save_config has run once and,
\* unless the write itself failed, the file is an empty configuration; and a
\* write, a toggle or a read then asked of any formerly configured pin is
\* rejected as not configured without a hardware call.
C9_CleanupClearsAll ==
  Running =>
    \A confirm \in {"yes", "y"}, fault \in CleanupFaults :
      LET r == cleanup_all_body(configured_pins, gpio_pins, config_file, confirm, fault)
      IN (Enabled(r) /\ fault # "cleanup") =>
           /\ r.out = "All GPIO pins cleaned up!"
           /\ r.calls = <<CleanupCall(TRUE)>>
           /\ r.cp = EmptyDict
           /\ r.pins = EmptyDict
           /\ Len(r.saves) = 1
           /\ r.saves[1] => r.file = JsonFile(EmptyDict)
           /\ \A pin \in DOMAIN configured_pins, choice \in ControlChoices,
                 cfault \in ControlFaults :
                LET c == control_pin_body(r.cp, r.pins, r.file, str(pin), choice, cfault)
                IN /\ c.out = "Pin not configured! Please setup first."
                   /\ c.calls = << >>
                   /\ c.cp = r.cp

\* C9 witness: two pins are configured and persisted, and a confirmed cleanup
\* empties the map and the file.
C9_Witness ==
  /\ Running
  /\ DOMAIN configured_pins = {3, 17}
  /\ FileIsProjection(config_file, configured_pins)
  /\ LET r == cleanup_all_body(configured_pins, gpio_pins, config_file, "yes", "none")
     IN /\ r.cp = EmptyDict
        /\ r.file = JsonFile(EmptyDict)
        /\ r.file # config_file
        /\ control_pin_body(r.cp, r.pins, r.file, str(17), "1", "none").out
             = "Pin not configured! Please setup first."

\* ---------------------------------------------------------------------
\* The step is a cleanup_all step.
CleanupStep ==
  \E confirm \in {"yes", "no"}, fault \in CleanupFaults : cleanup_all(confirm, fault)

\* C10: within a session (the process neither exits nor starts in the step),
\* every step that is not a cleanup_all step leaves every configured pin in
\* the map: the pins of the map after the step include those before it.
C10_OnlyCleanupRemoves ==
  [][(pc = "running" /\ pc' = "running" /\ ~CleanupStep)
       => DOMAIN configured_pins \subseteq DOMAIN configured_pins']_vars

\* C10 witness: late in a session in which a call failed, both pins are still
\* in the map: pin 3 an output written HIGH, pin 17 a named input whose line
\* was read.
C10_Witness ==
  /\ Running
  /\ faults_left = 0
  /\ DOMAIN configured_pins = {3, 17}
  /\ configured_pins[3].direction = "output"
  /\ Get(configured_pins[3], "state", LOW) = HIGH
  /\ configured_pins[17].direction = "input"
  /\ "state" \in DOMAIN configured_pins[17]
  /\ configured_pins[17].name = "relay"

\* ---------------------------------------------------------------------
\* The file is a snapshot in the persisted format: every key is the decimal
\* text of a BCM pin, and every entry is an input with its pull and name or an
\* output with its name (and, as save_config writes it, pull "none").
ValidSnapshot(file) ==
  /\ file.exists
  /\ file.wellformed
  /\ \A k \in DOMAIN file.data :
       /\ is_int(k) /\ str(int(k)) = k /\ is_valid_pin(int(k))
       /\ LET cfg == file.data[k]
          IN /\ {"direction", "name"} \subseteq DOMAIN cfg
             /\ DOMAIN cfg \subseteq {"direction", "pull", "name"}
             /\ \/ cfg.direction = "input" /\ "pull" \in DOMAIN cfg
                   /\ cfg.pull \in {"none", "up", "down"}
                \/ cfg.direction = "output" /\ Get(cfg, "pull", "none") = "none"

\* The faults a hardware call of load_config can meet on one entry.
LoadFaults == NoFault \cup {"setup", "output"}

\* C11: when load_config restores a valid snapshot and the hardware calls of
\* some of its pins fail, each failing pin is absent from the map afterwards,
\* and every other pin of the file, whether it comes before or after a failing
\* one in the file, is in the map with its persisted direction.
C11_RestoreSkipsFailedPin ==
  (~Running /\ ValidSnapshot(config_file)) =>
    \A todo \in Orders(DOMAIN config_file.data),
       fa \in [DOMAIN config_file.data -> LoadFaults] :
      LET r == load_config(EmptyDict, EmptyDict, config_file, todo, fa)
      IN Enabled(r) =>
           \A k \in DOMAIN config_file.data :
             IF fa[k] = "none"
             THEN /\ int(k) \in DOMAIN r.cp
                  /\ r.cp[int(k)].direction = config_file.data[k].direction
                  /\ int(k) \in DOMAIN r.pins
             ELSE /\ int(k) \notin DOMAIN r.cp
                  /\ \E i \in DOMAIN r.calls : r.calls[i].pin = int(k) /\ ~r.calls[i].ok

\* C11 witness: the file holds pins 3 and 17; with the restore of pin 3 failing,
\* pin 17 is restored both when it comes after pin 3 and when it comes before.
C11_Witness ==
  /\ ~Running
  /\ ValidSnapshot(config_file)
  /\ DOMAIN config_file.data = {str(3), str(17)}
  /\ \A todo \in {<<str(3), str(17)>>, <<str(17), str(3)>>} :
       LET r == load_config(EmptyDict, EmptyDict, config_file, todo,
                            [k \in DOMAIN config_file.data |->
                               IF k = str(3) THEN "output" ELSE "none"])
       IN Enabled(r) /\ DOMAIN r.cp = {17}

\* ---------------------------------------------------------------------
\* The file exists and is not well-formed: its content cannot be parsed, or a
\* key of it is no integer.
Corrupt(file) ==
  /\ file.exists
  /\ ~file.wellformed \/ \E k \in DOMAIN file.data : ~is_int(k)

\* No hardware call of load_config fails.
NoLoadFault(file) == [k \in DOMAIN file.data |-> "none"]

\* C12 as stated: when the file a start-up loads exists and is not well-formed
\* (unparseable, or with a key that is no integer), load_config warns, returns
\* normally, and the session starts with an empty map: no pin of that file is
\* configured.
C12_CorruptFileStartsEmpty ==
  (~Running /\ Corrupt(config_file)) =>
    \A todo \in Orders(DOMAIN config_file.data) :
      LET r == load_config(EmptyDict, EmptyDict, config_file, todo, NoLoadFault(config_file))
      IN /\ r.out = "Warning: Could not load config file"
         /\ r.cp = EmptyDict

\* ---------------------------------------------------------------------
\* The canonical file as a start-up with no failing call reads it (after the
\* migration, if one is due).
FileRead == migrate(old_file, config_file, "none").file

\* The files f and g hold the same pins and, for each pin, the same direction,
\* pull (an absent pull is "none") and name.
SameSnapshot(f, g) ==
  /\ f.exists /\ f.wellformed /\ g.exists /\ g.wellformed
  /\ {int(k) : k \in DOMAIN f.data} = {int(k) : k \in DOMAIN g.data}
  /\ Cardinality(DOMAIN f.data) = Cardinality(DOMAIN g.data)
  /\ \A k \in DOMAIN f.data, l \in DOMAIN g.data :
       int(k) = int(l) =>
         /\ f.data[k].direction = g.data[l].direction
         /\ Get(f.data[k], "pull", "none") = Get(g.data[l], "pull", "none")
         /\ f.data[k].name = g.data[l].name

\* C13: round trip.  When a start-up loads a valid snapshot and no hardware
\* call fails, saving the map it built writes a file with the same pins and,
\* for each pin, the same direction, pull and name, whatever the order of the
\* entries; and no entry written carries anything else (no level).
C13_LoadSaveRoundTrip ==
  (~Running /\ ValidSnapshot(FileRead)) =>
    \A todo \in Orders(DOMAIN FileRead.data) :
      LET i == initialize(old_file, config_file, "none", todo, NoLoadFault(FileRead))
          s == save_config(i.load.cp, i.load.file, "none")
      IN /\ s.ret
         /\ SameSnapshot(s.file, FileRead)
         /\ \A k \in DOMAIN s.file.data :
              DOMAIN s.file.data[k] = {"direction", "pull", "name"}

\* C13 witness: the file read holds an input with pull-up and a name and an
\* output; the restore builds a map that caches a level for the output, and the
\* save gives the same snapshot back.
C13_Witness ==
  /\ ~Running
  /\ FileRead = JsonFile(TwoPinData)
  /\ LET i == initialize(old_file, config_file, "none", <<str(3), str(17)>>,
                         NoLoadFault(FileRead))
     IN /\ i.load.cp[3].state = LOW
        /\ i.load.cp[17].pull = "up"
        /\ SameSnapshot(save_config(i.load.cp, i.load.file, "none").file, FileRead)

\* ---------------------------------------------------------------------
\* C14: idempotence of a write.  For any configured output pin, setting it
\* HIGH (control_pin option 1) twice in a row, both succeeding, leaves the
\* cached level HIGH and the line HIGH, and the second write leaves the map,
\* the backend and the file exactly as the first one left them.
C14_WriteHighIdempotent ==
  Running =>
    \A text \in PinTexts :
      (Configured(text) /\ Direction(text) = "output") =>
        LET pin == int(text)
            r1 == control_pin_body(configured_pins, gpio_pins, config_file, text, "1", "none")
            r2 == control_pin_body(r1.cp, r1.pins, r1.file, text, "1", "none")
        IN /\ r1.calls = <<OutputCall(pin, HIGH, TRUE)>>
           /\ r2.calls = <<OutputCall(pin, HIGH, TRUE)>>
           /\ r2.cp[pin].state = HIGH
           /\ r2.pins[pin].state = HIGH
           /\ r2.saves = <<TRUE>>
           /\ r2.file = r1.file
           /\ r2.cp = r1.cp
           /\ r2.pins = r1.pins

\* C14 witness: pin 17 is an output at LOW beside another pin; the first write
\* changes the map and the second changes nothing.
C14_Witness ==
  /\ Running
  /\ 3 \in DOMAIN configured_pins
  /\ 17 \in output_pins(configured_pins)
  /\ configured_pins[17].state = LOW
  /\ LET r1 == control_pin_body(configured_pins, gpio_pins, config_file, str(17), "1", "none")
         r2 == control_pin_body(r1.cp, r1.pins, r1.file, str(17), "1", "none")
     IN /\ r1.cp # configured_pins
        /\ r1.cp[17].state = HIGH
        /\ r2.cp = r1.cp /\ r2.file = r1.file

\* ---------------------------------------------------------------------
\* The exit made the calls save_config and then GPIO.cleanup, in that order.
SavedThenReleased(r) ==
  /\ Len(r.steps) >= 2
  /\ r.steps[1] = "save_config"
  /\ r.steps[2] = "GPIO.cleanup"
  /\ Len(r.saves) = 1
  /\ r.calls # << >>
  /\ \A i \in DOMAIN r.calls : r.calls[i].fn = "cleanup"

\* C15: on exit by "q" and on exit by KeyboardInterrupt, save_config is called
\* first and GPIO.cleanup after it, whatever the save did: a save that fails
\* (before or after opening the file) does not keep GPIO.cleanup from being
\* called.  A save that succeeds writes the projection of the map, and a
\* cleanup that succeeds empties the backend.
C15_ExitSavesThenReleases ==
  Running =>
    \A fault \in NoFault \cup SaveFaults, cfault \in {"none", "cleanup"} :
      \A r \in {run_quit_body(configured_pins, gpio_pins, config_file, fault, cfault),
                run_interrupt_body(configured_pins, gpio_pins, config_file, fault, cfault)} :
        Enabled(r) =>
          /\ SavedThenReleased(r)
          /\ r.saves[1] = (fault = "none")
          /\ r.saves[1] => FileIsProjection(r.file, configured_pins)
          /\ r.calls[Len(r.calls)].ok => r.pins = EmptyDict

\* C15 witness: two pins are configured and persisted, and on "q" the save
\* fails, leaving a truncated file, and GPIO.cleanup is still called and
\* empties the backend.
C15_Witness ==
  /\ Running
  /\ Cardinality(DOMAIN configured_pins) = 2
  /\ FileIsProjection(config_file, configured_pins)
  /\ LET r == run_quit_body(configured_pins, gpio_pins, config_file, "save after open", "none")
     IN /\ Enabled(r)
        /\ r.steps = <<"save_config", "GPIO.cleanup">>
        /\ r.saves = <<FALSE>>
        /\ r.calls = <<CleanupCall(TRUE)>>
        /\ r.pins = EmptyDict /\ gpio_pins # EmptyDict

\* ---------------------------------------------------------------------
\* C16 as stated: on every exit path, the unexpected-failure path included, a
\* save of the configuration and a hardware release are both attempted.
C16_EveryExitSavesAndReleases ==
  Running =>
    \A fault \in NoFault \cup SaveFaults, cfault \in {"none", "cleanup"} :
      \A r \in {run_quit_body(configured_pins, gpio_pins, config_file, fault, cfault),
                run_interrupt_body(configured_pins, gpio_pins, config_file, fault, cfault),
                run_fatal_body(configured_pins, gpio_pins, config_file, cfault)} :
        Enabled(r) =>
          /\ \E i \in DOMAIN r.steps : r.steps[i] = "save_config"
          /\ \E i \in DOMAIN r.steps : r.steps[i] = "GPIO.cleanup"

\* ---------------------------------------------------------------------
\* C17: get_pin_status_symbol is a pure query.  For every BCM pin and every
\* state of the session, whether or not the read it makes fails, it leaves the
\* map, the backend's lines and the file as they were and saves nothing; it
\* makes one GPIO.input call when the pin is configured as input, and no
\* hardware call at all for an output or an unconfigured pin.
C17_StatusSymbolPure ==
  Running =>
    \A bcm_pin \in valid_pins, fault \in NoFault \cup {"input"} :
      LET r == get_pin_status_symbol_res(configured_pins, gpio_pins, config_file,
                                         bcm_pin, fault)
      IN Enabled(r) =>
           /\ r.cp = configured_pins
           /\ r.pins = gpio_pins
           /\ r.file = config_file
           /\ r.saves = << >>
           /\ r.calls = IF bcm_pin \in input_pins(configured_pins)
                        THEN <<InputCall(bcm_pin, fault # "input")>>
                        ELSE << >>

\* C17 witness: pin 3 is an output and pin 17 an input whose entry caches no
\* level; the query of 17 with a failing read makes the one read and changes
\* nothing, the query of 3 makes no call.
C17_Witness ==
  /\ Running
  /\ 3 \in output_pins(configured_pins)
  /\ 17 \in input_pins(configured_pins)
  /\ "state" \notin DOMAIN configured_pins[17]
  /\ LET r == get_pin_status_symbol_res(configured_pins, gpio_pins, config_file, 17, "input")
         q == get_pin_status_symbol_res(configured_pins, gpio_pins, config_file, 3, "none")
     IN /\ Enabled(r)
        /\ r.calls = <<InputCall(17, FALSE)>>
        /\ r.cp = configured_pins
        /\ q.calls = << >>

\* ---------------------------------------------------------------------
\* What get_pin_status_symbol returns for a pin that is not in the map.
UnconfiguredSymbol == get_pin_status_symbol_body(EmptyDict, EmptyDict, 17, "none").ret

\* C18 as stated: get_pin_status_symbol returns the unconfigured symbol for a
\* pin absent from the map, the high or low output symbol according to the
\* cached level of an output, the high or low input symbol according to the
\* level read from the line of an input and, when that read fails, a result
\* of its own, distinct from the unconfigured symbol and from the four others.
C18_StatusSymbolValues ==
  Running =>
    \A bcm_pin \in valid_pins, fault \in NoFault \cup {"input"} :
      LET r == get_pin_status_symbol_res(configured_pins, gpio_pins, config_file,
                                         bcm_pin, fault)
      IN Enabled(r) =>
           IF bcm_pin \notin DOMAIN configured_pins
           THEN r.out = "gray circle"
           ELSE IF bcm_pin \in output_pins(configured_pins)
           THEN r.out = IF Get(configured_pins[bcm_pin], "state", LOW) = HIGH
                        THEN "green dot" ELSE "red dot"
           ELSE IF fault = "none"
           THEN r.out = IF gpio_pins[bcm_pin].state = HIGH THEN "blue dot" ELSE "gray dot"
           ELSE r.out \notin {UnconfiguredSymbol, "green dot", "red dot", "blue dot", "gray dot"}

\* ---------------------------------------------------------------------
\* The other level.
Complement(level) == 1 - level

\* C19: toggle.  On any configured output pin, control_pin option 3 writes the
\* complement of the pin's cached level to the line and caches it: the level
\* afterwards is HIGH iff the cached level before was LOW.  Two successful
\* toggles in a row bring the cached level and the level of the line back to
\* what they were.
C19_ToggleComplements ==
  Running =>
    \A text \in PinTexts :
      (Configured(text) /\ Direction(text) = "output") =>
        LET pin == int(text)
            cached == Get(configured_pins[pin], "state", LOW)
            r1 == control_pin_body(configured_pins, gpio_pins, config_file, text, "3", "none")
            r2 == control_pin_body(r1.cp, r1.pins, r1.file, text, "3", "none")
        IN /\ r1.calls = <<OutputCall(pin, Complement(cached), TRUE)>>
           /\ r1.cp[pin].state = Complement(cached)
           /\ r1.pins[pin].state = Complement(cached)
           /\ (r1.cp[pin].state = HIGH) <=> (cached = LOW)
           /\ r2.calls = <<OutputCall(pin, cached, TRUE)>>
           /\ r2.cp[pin].state = cached
           /\ r2.pins[pin].state = gpio_pins[pin].state
           /\ r2.pins = gpio_pins

\* C19 witness: pin 17 is an output cached HIGH; a toggle writes LOW and a
\* second toggle writes HIGH again.
C19_Witness ==
  /\ Running
  /\ 17 \in output_pins(configured_pins)
  /\ configured_pins[17].state = HIGH
  /\ LET r1 == control_pin_body(configured_pins, gpio_pins, config_file, str(17), "3", "none")
         r2 == control_pin_body(r1.cp, r1.pins, r1.file, str(17), "3", "none")
     IN /\ r1.out = "toggled"
        /\ r1.cp[17].state = LOW /\ r1.pins[17].state = LOW
        /\ r2.cp[17].state = HIGH /\ r2.pins[17].state = HIGH

\* ---------------------------------------------------------------------
\* The pins a snapshot names.
SnapshotPins(file) == {int(k) : k \in DOMAIN file.data}

\* C20: legacy migration at start-up.  The canonical file changes in the
\* migration only when the legacy file exists and the canonical one does not:
\* then the content of the legacy file is moved there (the legacy file is
\* gone) or, when the move fails, copied there (the legacy file stays).  An
\* existing canonical file is left exactly as it was, by the migration and by
\* the load.  load_config runs after the migration and reads the canonical
\* file as the migration left it, so a migrated valid snapshot is restored in
\* the same start-up; and it runs whatever the migration did: after a failed
\* migration the session starts from what is at the canonical place (nothing,
\* or a partial copy that load_config reports as unreadable).
C20_LegacyMigration ==
  ~Running =>
    \A mfault \in NoFault \cup MigrateFaults :
      LET m == migrate(old_file, config_file, mfault)
      IN \A todo \in Orders(DOMAIN m.file.data) :
           LET i == initialize(old_file, config_file, mfault, todo, NoLoadFault(m.file))
           IN InitFaults(i) <= faults_left =>
                /\ (m.file # config_file \/ m.old # old_file)
                     => (old_file.exists /\ ~config_file.exists)
                /\ config_file.exists => (i.load.file = config_file /\ i.old = old_file)
                /\ (old_file.exists /\ ~config_file.exists) =>
                     /\ mfault = "none" => (i.load.file = old_file /\ i.old = NoFile)
                     /\ mfault = "move" => (i.load.file = old_file /\ i.old = old_file)
                     /\ mfault \in {"makedirs", "move and copy"} =>
                          /\ i.load.file = config_file /\ i.old = old_file
                          /\ i.load.cp = EmptyDict /\ i.load.out = ""
                     /\ mfault = "copy truncated" =>
                          /\ i.old = old_file
                          /\ i.load.cp = EmptyDict
                          /\ i.load.out = "Warning: Could not load config file"
                     /\ (mfault \in {"none", "move"} /\ ValidSnapshot(old_file)) =>
                          DOMAIN i.load.cp = SnapshotPins(old_file)
                /\ i.load = load_config(EmptyDict, EmptyDict, m.file, todo, NoLoadFault(m.file))

\* C20 witness: a legacy file with pin 17 and no canonical file.  The start-up
\* moves it and restores pin 17; with the move failing it copies it and
\* restores pin 17 all the same.
C20_Witness ==
  /\ ~Running
  /\ old_file = JsonFile(LegacyData)
  /\ ~config_file.exists
  /\ LET i == initialize(old_file, config_file, "none", <<str(17)>>, NoLoadFault(old_file))
         j == initialize(old_file, config_file, "move", <<str(17)>>, NoLoadFault(old_file))
     IN /\ i.load.file = old_file /\ i.old = NoFile /\ DOMAIN i.load.cp = {17}
        /\ InitFaults(j) <= faults_left
        /\ j.load.file = old_file /\ j.old = old_file /\ DOMAIN j.load.cp = {17}

\* ---------------------------------------------------------------------
\* The entries of the file whose direction is neither "input" nor "output".
UnknownDirectionKeys(file) ==
  {k \in DOMAIN file.data :
     /\ is_int(k)
     /\ "direction" \in DOMAIN file.data[k]
     /\ file.data[k].direction \notin {"input", "output"}}

\* C21 as stated: when load_config meets an entry whose direction is neither
\* "input" nor "output", it does not configure the pin under a default
\* direction: no GPIO.setup is made for the pin and the pin is not recorded in
\* the map.
C21_UnknownDirectionRejected ==
  (~Running /\ config_file.exists /\ config_file.wellformed) =>
    \A todo \in Orders(DOMAIN config_file.data) :
      LET r == load_config(EmptyDict, EmptyDict, config_file, todo, NoLoadFault(config_file))
      IN \A k \in UnknownDirectionKeys(config_file) :
           /\ int(k) \notin DOMAIN r.cp
           /\ \A i \in DOMAIN r.calls : r.calls[i].pin # int(k)

\* ---------------------------------------------------------------------
\* The mutating handlers run on the stores (cp, pins, file) over every input,
\* each paired with the same run when no call fails: <<with fault, without>>.
MutatingPairs(cp, pins, file, fault) ==
  {<<setup_pin_body(cp, pins, file, text, custom_name, choice, fault),
     setup_pin_body(cp, pins, file, text, custom_name, choice, "none")>> :
     text \in PinTexts, custom_name \in Names, choice \in SetupChoices}
  \cup {<<control_pin_body(cp, pins, file, text, choice, fault),
          control_pin_body(cp, pins, file, text, choice, "none")>> :
          text \in PinTexts, choice \in ControlChoices}
  \cup {<<rename_pin_body(cp, pins, file, text, new_name, fault),
          rename_pin_body(cp, pins, file, text, new_name, "none")>> :
          text \in PinTexts, new_name \in Names}
  \cup {<<set_all_outputs_body(cp, pins, file, state, {}, fault),
          set_all_outputs_body(cp, pins, file, state, {}, "none")>> : state \in Levels}
  \cup {<<cleanup_all_body(cp, pins, file, confirm, fault),
          cleanup_all_body(cp, pins, file, confirm, "none")>> : confirm \in {"yes", "no"}}

\* Every operation that runs on the stores (cp, pins, file) without a fault and
\* saves: the mutating handlers and the quit option.
NextSaves(cp, pins, file) ==
  {r \in {setup_pin_body(cp, pins, file, text, custom_name, choice, "none") :
             text \in PinTexts, custom_name \in Names, choice \in SetupChoices}
          \cup {control_pin_body(cp, pins, file, text, choice, "none") :
                  text \in PinTexts, choice \in ControlChoices}
          \cup {rename_pin_body(cp, pins, file, text, new_name, "none") :
                  text \in PinTexts, new_name \in Names}
          \cup {set_all_outputs_body(cp, pins, file, state, {}, "none") : state \in Levels}
          \cup {cleanup_all_body(cp, pins, file, confirm, "none") : confirm \in {"yes", "no"}}
          \cup {run_quit_body(cp, pins, file, "none", "none")} :
     r.saves = <<TRUE>>}

\* The save of the result failed.
SaveFailed(r) == \E i \in DOMAIN r.saves : ~r.saves[i]

\* C22: a failed save is non-fatal and leaves the map alone.  For every
\* mutating operation whose save_config fails (before or after the file was
\* opened): the handler ends as it does when the save succeeds, with the same
\* outcome, the same map (the mutation included) and the same hardware state.
\* On the stores it leaves, a save_config that succeeds, and the quit option,
\* write the projection of the whole map, the mutation whose save failed
\* included.  And in every state of the running session in which the file is
\* behind the map, whatever was done since the save failed, every operation
\* that saves successfully, the quit option included, writes the projection of
\* the whole map it leaves.
C22_FailedSaveKeepsMutation ==
  /\ (Running /\ faults_left > 0) =>
       \A fault \in SaveFaults :
         \A p \in MutatingPairs(configured_pins, gpio_pins, config_file, fault) :
           SaveFailed(p[1]) =>
             /\ p[1].cp = p[2].cp
             /\ p[1].pins = p[2].pins
             /\ p[1].out = p[2].out
             /\ p[1].file = save_config(p[1].cp, config_file, fault).file
             /\ FileIsProjection(save_config(p[1].cp, p[1].file, "none").file, p[1].cp)
             /\ FileIsProjection(
                  run_quit_body(p[1].cp, p[1].pins, p[1].file, "none", "none").file, p[1].cp)
  /\ (Running /\ ~FileIsProjection(config_file, configured_pins)) =>
       \A r2 \in NextSaves(configured_pins, gpio_pins, config_file) :
         FileIsProjection(r2.file, r2.cp)

\* C22 witness: two pins are configured and the file is up to date; writing
\* HIGH to output 3 succeeds in hardware but its save fails and truncates the
\* file; the map caches HIGH, and a rename of pin 17 that follows writes a file
\* holding both pins.
C22_Witness ==
  /\ Running
  /\ faults_left > 0
  /\ DOMAIN configured_pins = {3, 17}
  /\ configured_pins[3].direction = "output"
  /\ configured_pins[3].state = LOW
  /\ FileIsProjection(config_file, configured_pins)
  /\ LET r == control_pin_body(configured_pins, gpio_pins, config_file, str(3), "1",
                               "save after open")
         r2 == rename_pin_body(r.cp, r.pins, r.file, str(17), "relay", "none")
     IN /\ SaveFailed(r)
        /\ r.file = TruncatedFile
        /\ r.cp[3].state = HIGH
        /\ r2.saves = <<TRUE>>
        /\ r2 \in NextSaves(r.cp, r.pins, r.file)
        /\ FileIsProjection(r2.file, r2.cp)
        /\ DOMAIN r2.file.data = {str(3), str(17)}

\* ---------------------------------------------------------------------
\* For every output of the map cp, the cached level is the level the backend
\* holds for the pin.
CacheAgrees(cp, pins) ==
  \A pin \in output_pins(cp) :
    /\ pin \in DOMAIN pins
    /\ "state" \in DOMAIN cp[pin]
    /\ cp[pin].state = pins[pin].state

\* C23 (simulated backend): in every reachable state, for every pin the map
\* holds as an output, the cached level equals the level the backend holds for
\* the pin; and it is so after every write (option 1, 2 or 3 of control_pin)
\* and every set_all_outputs whose GPIO.output fails on some pins.
C23_CacheMatchesBackend ==
  /\ CacheAgrees(configured_pins, gpio_pins)
  /\ Running =>
       /\ \A r \in ControlResults({"output"}) :
            Enabled(r) => CacheAgrees(r.cp, r.pins)
       /\ \A state \in Levels, F \in SUBSET output_pins(configured_pins) :
            LET r == set_all_outputs_body(configured_pins, gpio_pins, config_file,
                                          state, F, "none")
            IN Enabled(r) => CacheAgrees(r.cp, r.pins)

\* C23 witness: output 3 is cached HIGH and the backend holds HIGH; writing LOW
\* to it fails in hardware, and both the cache and the backend keep HIGH.
C23_Witness ==
  /\ Running
  /\ 3 \in output_pins(configured_pins)
  /\ configured_pins[3].state = HIGH
  /\ gpio_pins[3].state = HIGH
  /\ LET r == control_pin_body(configured_pins, gpio_pins, config_file, str(3), "2", "output")
     IN /\ Enabled(r)
        /\ r.calls = <<OutputCall(3, LOW, FALSE)>>
        /\ r.cp[3].state = HIGH
        /\ r.pins[3].state = HIGH
        /\ CacheAgrees(r.cp, r.pins)

\* ---------------------------------------------------------------------
\* The keys of the file, when it can be read.
FileKeys(file) == IF file.exists /\ file.wellformed THEN DOMAIN file.data ELSE {}

\* C24: from a fresh session with no configuration file, after any sequence of
\* operations and restarts, every key of the map is a valid pin and every key
\* of the file is the text of a valid pin; and whatever load_config restores
\* at a restart, from the file the session wrote, has valid pins only.
C24_KeysAreValidPins ==
  /\ DOMAIN configured_pins \subseteq valid_pins
  /\ \A k \in FileKeys(config_file) : is_int(k) /\ int(k) \in valid_pins /\ str(int(k)) = k
  /\ ~Running =>
       \A r \in LoadResults :
         Enabled(r) => (DOMAIN r.cp \subseteq valid_pins /\ r.file = config_file)

\* C24 witness: the session was left with pins 3 and 17 in its file, and a
\* restart restores both.
C24_Witness ==
  /\ ~Running
  /\ FileKeys(config_file) = {str(3), str(17)}
  /\ \E r \in LoadResults : Enabled(r) /\ DOMAIN r.cp = {3, 17}

\* ---------------------------------------------------------------------
\* The keys of the file that the map does not hold: pins that failed to
\* restore, or that a failed save left behind.
StaleKeys(file, cp) == {k \in FileKeys(file) : is_int(k) /\ int(k) \notin DOMAIN cp}

\* load_config of the file with no fault restores pin, in some order.
RestoredLater(file, pin) ==
  \E todo \in Orders(FileKeys(file)) :
    pin \in DOMAIN load_config(EmptyDict, EmptyDict, file, todo,
                               [k \in FileKeys(file) |-> "none"]).cp

\* C25 as stated: load_config leaves the file as it was, a pin whose restore
\* fails is in the file and not in the map, and the next successful save, by
\* any mutating operation or by the quit option, leaves that pin out of the
\* file.
C25_NextSaveRemovesFailedPin ==
  (~Running /\ ValidSnapshot(config_file)) =>
    \A todo \in Orders(DOMAIN config_file.data),
       fa \in [DOMAIN config_file.data -> LoadFaults] :
      LET r == load_config(EmptyDict, EmptyDict, config_file, todo, fa)
      IN Enabled(r) =>
           /\ r.file = config_file
           /\ \A k \in DOMAIN config_file.data :
                fa[k] # "none" =>
                  /\ k \in StaleKeys(r.file, r.cp)
                  /\ \A r2 \in NextSaves(r.cp, r.pins, r.file) :
                       /\ k \notin FileKeys(r2.file)
                       /\ ~RestoredLater(r2.file, int(k))

\* C25, amended: load_config leaves the file as it was and a pin whose restore
\* fails is in the file and not in the map.  The next successful save writes
\* the pins of the map and no other: the pin is out of the file, and no later
\* restart restores it, unless the saving operation is a setup_pin that
\* configured this pin again.  The same holds in the running session for every
\* pin the file holds and the map does not, whatever was done since the restart.
C25_NextSaveWritesMapOnly ==
  /\ (~Running /\ ValidSnapshot(config_file)) =>
       \A todo \in Orders(DOMAIN config_file.data),
          fa \in [DOMAIN config_file.data -> LoadFaults] :
         LET r == load_config(EmptyDict, EmptyDict, config_file, todo, fa)
         IN Enabled(r) =>
              /\ r.file = config_file
              /\ \A k \in DOMAIN config_file.data :
                   fa[k] # "none" =>
                     /\ k \in StaleKeys(r.file, r.cp)
                     /\ \A r2 \in NextSaves(r.cp, r.pins, r.file) :
                          /\ FileKeys(r2.file) = {str(pin) : pin \in DOMAIN r2.cp}
                          /\ int(k) \notin DOMAIN r2.cp =>
                               /\ k \notin FileKeys(r2.file)
                               /\ ~RestoredLater(r2.file, int(k))
                          /\ int(k) \in DOMAIN r2.cp =>
                               r2.out \in {"configured as OUTPUT (initialized to LOW)",
                                           "configured as INPUT"}
  /\ Running =>
       \A k \in StaleKeys(config_file, configured_pins) :
         \A r2 \in NextSaves(configured_pins, gpio_pins, config_file) :
           int(k) \notin DOMAIN r2.cp =>
             /\ k \notin FileKeys(r2.file)
             /\ ~RestoredLater(r2.file, int(k))

\* C25 witness: the file holds pins 3 and 17 and the restore of pin 17 fails:
\* the file is as it was and the map holds pin 3 only; quitting then writes a
\* file with pin 3 only, from which no restart restores pin 17.
C25_Witness ==
  /\ ~Running
  /\ ValidSnapshot(config_file)
  /\ DOMAIN config_file.data = {str(3), str(17)}
  /\ LET r == load_config(EmptyDict, EmptyDict, config_file, <<str(3), str(17)>>,
                          [k \in DOMAIN config_file.data |->
                             IF k = str(17) THEN "setup" ELSE "none"])
         r2 == run_quit_body(r.cp, r.pins, r.file, "none", "none")
     IN /\ Enabled(r)
        /\ r.file = config_file
        /\ DOMAIN r.cp = {3}
        /\ str(17) \in StaleKeys(r.file, r.cp)
        /\ r2 \in NextSaves(r.cp, r.pins, r.file)
        /\ FileKeys(r2.file) = {str(3)}
        /\ ~RestoredLater(r2.file, 17)

====
